---- MODULE Spec2Model ----
(***************************************************************************)
(* DiscoveryServiceV3: the adaptive prefix-exploration engine.             *)
(*                                                                         *)
(* A prefix and a name are sequences of one-character strings.  The        *)
(* JavaScript event loop is modelled by macrotasks: one action is one      *)
(* macrotask (a public call, a timer that fires, a fetch that settles)     *)
(* together with the microtasks (promise reactions) it schedules.          *)
(***************************************************************************)
EXTENDS Integers, Sequences, FiniteSets, TLC

(***************************************************************************)
(* Bounds of the model.                                                    *)
(***************************************************************************)
\* events of the environment in one behaviour of a "lifecycle" scenario:
\* calls of the public methods after the first call, and fetches that do
\* not answer 200
MaxEvents == 3
\* 429 answers in one behaviour of a "load" scenario
MaxRejections == 1

(***************************************************************************)
(* Strings.                                                                *)
(***************************************************************************)
Min(a, b) == IF a < b THEN a ELSE b
Max(a, b) == IF a > b THEN a ELSE b

alphabet ==
  << "a","b","c","d","e","f","g","h","i","j","k","l","m",
     "n","o","p","q","r","s","t","u","v","w","x","y","z" >>

\* String.prototype.startsWith
StartsWith(s, p) == Len(p) <= Len(s) /\ SubSeq(s, 1, Len(p)) = p

\* String.prototype.slice(0, -1)
Parent(p) == SubSeq(p, 1, Len(p) - 1)

\* Array.prototype.includes
Includes(seq, x) == \E i \in 1..Len(seq) : seq[i] = x

\* Array.prototype.filter(p => p !== x)
RECURSIVE Without(_, _)
Without(seq, x) ==
  IF seq = << >> THEN << >>
  ELSE IF Head(seq) = x THEN Without(Tail(seq), x)
       ELSE << Head(seq) >> \o Without(Tail(seq), x)

\* String.prototype.includes for a two-letter combination
HasSub(s, c) == \E i \in 1..(Len(s) - 1) : SubSeq(s, i, i + 1) = c

\* String.prototype.charCodeAt(0) of a lowercase letter
CharCode(ch) == 96 + (CHOOSE i \in 1..26 : alphabet[i] = ch)

(***************************************************************************)
(* Maps (JavaScript Map): functions whose domain is the set of keys.       *)
(***************************************************************************)
EmptyMap == [k \in {} |-> 0]
Has(m, k) == k \in DOMAIN m
Put(m, k, v) == [x \in (DOMAIN m) \cup {k} |-> IF x = k THEN v ELSE m[x]]

(***************************************************************************)
(* History kept beside the service, per prefix: fetches issued, answers    *)
(* 429, answers 200, failing answers, and the increments of                *)
(* successfulRequests and failedRequests made on behalf of the prefix.     *)
(***************************************************************************)
NoEntry == [fetch |-> 0, r429 |-> 0, ok |-> 0, bad |-> 0, succ |-> 0, fail |-> 0]
Entry(ledger, prefix) == IF Has(ledger, prefix) THEN ledger[prefix] ELSE NoEntry
Note(s, prefix, field) ==
  [s EXCEPT !.ledger =
     Put(@, prefix, [Entry(@, prefix) EXCEPT ![field] = @ + 1])]

(***************************************************************************)
(* Tables of the constructor.                                              *)
(***************************************************************************)
commonEnglishNames ==
  << <<"j","a","m","e","s">>,
     <<"j","o","h","n">>,
     <<"r","o","b","e","r","t">>,
     <<"m","i","c","h","a","e","l">>,
     <<"w","i","l","l","i","a","m">>,
     <<"d","a","v","i","d">>,
     <<"j","o","s","e","p","h">>,
     <<"c","h","a","r","l","e","s">>,
     <<"t","h","o","m","a","s">>,
     <<"m","a","r","y">>,
     <<"p","a","t","r","i","c","i","a">>,
     <<"j","e","n","n","i","f","e","r">>,
     <<"l","i","n","d","a">>,
     <<"e","l","i","z","a","b","e","t","h">>,
     <<"b","a","r","b","a","r","a">>,
     <<"s","u","s","a","n">>,
     <<"j","e","s","s","i","c","a">>,
     <<"s","a","r","a","h">>,
     <<"k","a","r","e","n">>,
     <<"l","i","s","a">>,
     <<"n","a","n","c","y">>,
     <<"b","e","t","t","y">>,
     <<"s","a","n","d","r","a">> >>

\* initializeCommonNames: namePatterns counts, for every prefix of length
\* 1..3 that is shorter than the name, the names that start with it
namePatterns ==
  LET keys == { SubSeq(commonEnglishNames[n], 1, i) :
                  n \in 1..Len(commonEnglishNames), i \in 1..3 }
  IN [k \in keys |->
        Cardinality({ n \in 1..Len(commonEnglishNames) :
                        /\ Len(k) < Len(commonEnglishNames[n])
                        /\ StartsWith(commonEnglishNames[n], k) })]

rareCombinations ==
  { <<"z","x">>, <<"q","z">>, <<"j","x">>, <<"v","q">>, <<"w","x">> }

commonNextLetters == <<"a","e","i","j","l","m","n","o","r","s","t">>
commonLetters == <<"a","e","i","m","n","r","s","t">>

nameSuffixes ==
  << <<"a","m","e","s">>,
     <<"o","h","n">>,
     <<"a","r","k">>,
     <<"i","k","e">>,
     <<"i","l","l">>,
     <<"a","v","e">>,
     <<"a","c","k">>,
     <<"e","t","e","r">>,
     <<"y","a","n">>,
     <<"e","v","i","n">>,
     <<"a","r","y">>,
     <<"a","r","a">>,
     <<"i","s","a">>,
     <<"r","i","n">>,
     <<"m","m","a">>,
     <<"a","r","a","h">>,
     <<"n","n","a">>,
     <<"k","a","t","e">>,
     <<"u","l","i","e">>,
     <<"o","p","h","y">> >>

(***************************************************************************)
(* Pattern scorer.  s is the record of the service's fields.               *)
(***************************************************************************)
\* getPatternScore that inherits the parent's score less one, unfloored
getPatternScore_NoFloor(s, prefix) ==
  IF Len(prefix) <= 1 THEN 3
  ELSE IF Has(s.prefixPatterns, prefix) THEN s.prefixPatterns[prefix]
  ELSE IF Has(s.prefixPatterns, Parent(prefix))
       THEN s.prefixPatterns[Parent(prefix)] - 1
  ELSE IF Has(namePatterns, prefix) THEN Min(4, namePatterns[prefix])
  ELSE Max(0, 3 - Len(prefix))

getPatternScore(s, prefix) ==
  IF Len(prefix) <= 1 THEN 3
  ELSE IF Has(s.prefixPatterns, prefix) THEN s.prefixPatterns[prefix]
  ELSE IF Has(s.prefixPatterns, Parent(prefix))
       THEN Max(0, s.prefixPatterns[Parent(prefix)] - 1)
  ELSE IF Has(namePatterns, prefix) THEN Min(4, namePatterns[prefix])
  ELSE Max(0, 3 - Len(prefix))

hasRareCombination(prefix) ==
  \E combo \in rareCombinations : HasSub(prefix, combo)

\* calculatePrefixValue, times two: the code adds namePatterns/2 and
\* subtracts length * 0.5, so twice the value is an integer
calculatePrefixValue2(s, prefix) ==
  Max(0, 2 * getPatternScore(s, prefix)
         + (IF Has(namePatterns, prefix) THEN Min(10, namePatterns[prefix]) ELSE 0)
         - Len(prefix)
         - (IF hasRareCombination(prefix) THEN 4 ELSE 0))

\* the comparator without its second key
Negative_NoLengthKey(scoreA, scoreB, a, b) == scoreB < scoreA

\* the comparator of selectOptimalPrefix is negative: a sorts before b
Negative(scoreA, scoreB, a, b) ==
  IF scoreA # scoreB THEN scoreB < scoreA ELSE Len(a) < Len(b)
SortsBefore(s, a, b) ==
  Negative(calculatePrefixValue2(s, a), calculatePrefixValue2(s, b), a, b)

\* Array.prototype.sort is stable: an element goes before the first
\* element it sorts strictly before
RECURSIVE InsertSorted(_, _, _)
InsertSorted(s, sorted, x) ==
  IF sorted = << >> THEN << x >>
  ELSE IF SortsBefore(s, x, Head(sorted)) THEN << x >> \o sorted
       ELSE << Head(sorted) >> \o InsertSorted(s, Tail(sorted), x)

RECURSIVE SortQueue(_, _, _)
SortQueue(s, sorted, rest) ==
  IF rest = << >> THEN sorted
  ELSE SortQueue(s, InsertSorted(s, sorted, Head(rest)), Tail(rest))

\* isBlockedByParent that finds nothing blocked
isBlockedByParent_Never(s, prefix) == FALSE

isBlockedByParent(s, prefix) ==
  \E i \in 1..Len(s.blockedPrefixes) : StartsWith(prefix, s.blockedPrefixes[i])

\* shouldSkipPrefix without its test of blockedPrefixes
shouldSkipPrefix_NoBlockedTest(s, prefix) ==
  IF Len(prefix) <= 1 THEN FALSE
  ELSE IF getPatternScore(s, prefix) = 0 THEN TRUE
  ELSE \A i \in 1..(Len(prefix) - 1) :
         /\ Has(s.prefixPatterns, SubSeq(prefix, 1, i))
         /\ ~(s.prefixPatterns[SubSeq(prefix, 1, i)] > 0)

shouldSkipPrefix(s, prefix) ==
  IF Len(prefix) <= 1 THEN FALSE
  ELSE IF \E i \in 1..Len(s.blockedPrefixes) :
            StartsWith(prefix, s.blockedPrefixes[i]) THEN TRUE
  ELSE IF getPatternScore(s, prefix) = 0 THEN TRUE
  ELSE \A i \in 1..(Len(prefix) - 1) :
         /\ Has(s.prefixPatterns, SubSeq(prefix, 1, i))
         /\ ~(s.prefixPatterns[SubSeq(prefix, 1, i)] > 0)

(***************************************************************************)
(* The remote endpoint.  A server maps a prefix to the names it returns    *)
(* with status 200; which answer a fetch gets (200, 429, another status,   *)
(* a network error) is chosen when the fetch settles.                      *)
(***************************************************************************)
alice == <<"a","l","i","c","e">>
anna == <<"a","n","n","a">>
andy == <<"a","n","d","y">>
alina == <<"a","l","i","n","a">>

Servers == { "scenario", "matching" }

Remote(server, prefix) ==
  IF server = "scenario"
  THEN \* section 8 of the specification: a, al, an
       IF prefix = <<"a">> THEN << alice, anna >>
       ELSE IF prefix = <<"a","n">> THEN << anna, andy >>
       ELSE << >>
  ELSE \* a server that matches by prefix, except that it knows no "al"
       IF prefix = <<"a","l">> THEN << >>
       ELSE LET known == << alice, alina, anna >>
                hit(i) == StartsWith(known[i], prefix)
            IN IF prefix = << >> THEN << >>
               ELSE (IF hit(1) THEN << known[1] >> ELSE << >>)
                    \o (IF hit(2) THEN << known[2] >> ELSE << >>)
                    \o (IF hit(3) THEN << known[3] >> ELSE << >>)

(***************************************************************************)
(* Result handling.                                                        *)
(***************************************************************************)
generateFakeNamesForPrefix(s, prefix) ==
  LET suffixesToUse == IF Len(prefix) > 2 THEN 3 ELSE 6
      suffix(i) == nameSuffixes[((CharCode(prefix[1]) + i) % Len(nameSuffixes)) + 1]
      name(i) ==
        IF Len(prefix) > 1
        THEN prefix \o SubSeq(suffix(i), Min(Len(suffix(i)), Len(prefix)) + 1,
                              Len(suffix(i)))
        ELSE prefix \o suffix(i)
      possibleNames == [i \in 1..suffixesToUse |-> name(i - 1)]
      resultCount == Min(Len(possibleNames), Max(0, getPatternScore(s, prefix) + 1))
  IN SubSeq(possibleNames, 1, resultCount)

\* names.forEach of handleResults without its includes test
AddNames_Unchecked(uniqueNames, names) == uniqueNames \o names

\* names.forEach of handleResults: a name is pushed only if not included
RECURSIVE AddNames(_, _)
AddNames(uniqueNames, names) ==
  IF names = << >> THEN uniqueNames
  ELSE AddNames(IF Includes(uniqueNames, Head(names)) THEN uniqueNames
                ELSE Append(uniqueNames, Head(names)),
                Tail(names))

\* updatePatternScore that blocks every prefix without results
updatePatternScore_BlocksAnyLength(s, prefix, resultCount) ==
  LET score == IF resultCount > 8 THEN 5
               ELSE IF resultCount > 5 THEN 4
               ELSE IF resultCount > 2 THEN 3
               ELSE IF resultCount > 0 THEN 2
               ELSE 0
      p1 == Put(s.prefixPatterns, prefix, score)
      parentPrefix == Parent(prefix)
      \* Map.get(parentPrefix) || 0
      currentParentScore == IF Has(p1, parentPrefix) THEN p1[parentPrefix] ELSE 0
      p2 == IF Len(prefix) > 1 /\ resultCount > 0 /\ currentParentScore < 5
            THEN Put(p1, parentPrefix, Min(5, currentParentScore + 1))
            ELSE p1
  IN [s EXCEPT
        !.prefixPatterns = p2,
        !.blockedPrefixes =
           IF resultCount = 0 THEN Append(@, prefix) ELSE @]

updatePatternScore(s, prefix, resultCount) ==
  LET score == IF resultCount > 8 THEN 5
               ELSE IF resultCount > 5 THEN 4
               ELSE IF resultCount > 2 THEN 3
               ELSE IF resultCount > 0 THEN 2
               ELSE 0
      p1 == Put(s.prefixPatterns, prefix, score)
      parentPrefix == Parent(prefix)
      \* Map.get(parentPrefix) || 0
      currentParentScore == IF Has(p1, parentPrefix) THEN p1[parentPrefix] ELSE 0
      p2 == IF Len(prefix) > 1 /\ resultCount > 0 /\ currentParentScore < 5
            THEN Put(p1, parentPrefix, Min(5, currentParentScore + 1))
            ELSE p1
  IN [s EXCEPT
        !.prefixPatterns = p2,
        !.blockedPrefixes =
           IF resultCount = 0 /\ Len(prefix) >= 2 THEN Append(@, prefix) ELSE @]

\* the next-level prefixes of the names, in the order a Map keeps its keys
RECURSIVE NextPrefixes(_, _)
NextPrefixes(names, currentPrefix) ==
  IF names = << >> THEN << >>
  ELSE LET name == Head(names)
           rest == NextPrefixes(Tail(names), currentPrefix)
       IN IF Len(name) > Len(currentPrefix)
          THEN << currentPrefix \o << name[Len(currentPrefix) + 1] >> >> \o rest
          ELSE rest

RECURSIVE Distinct(_)
Distinct(seq) ==
  IF seq = << >> THEN << >>
  ELSE << Head(seq) >> \o Distinct(Without(Tail(seq), Head(seq)))

Count(seq, x) == Cardinality({ i \in 1..Len(seq) : seq[i] = x })

\* .sort((a, b) => b[1] - a[1]), stable
RECURSIVE InsertByFrequency(_, _, _)
InsertByFrequency(all, sorted, x) ==
  IF sorted = << >> THEN << x >>
  ELSE IF Count(all, x) > Count(all, Head(sorted)) THEN << x >> \o sorted
       ELSE << Head(sorted) >> \o InsertByFrequency(all, Tail(sorted), x)

RECURSIVE SortByFrequency(_, _, _)
SortByFrequency(all, sorted, rest) ==
  IF rest = << >> THEN sorted
  ELSE SortByFrequency(all, InsertByFrequency(all, sorted, Head(rest)), Tail(rest))

extractCommonPrefixes(names, currentPrefix) ==
  IF names = << >> THEN << >>
  ELSE LET all == NextPrefixes(names, currentPrefix)
           ranked == SortByFrequency(all, << >>, Distinct(all))
       IN SubSeq(ranked, 1, Min(3, Len(ranked)))

\* one forEach of generateOptimalNextPrefixes: push every candidate that is
\* not explored, skipped, queued, excluded or (where checked) blocked
RECURSIVE PushCandidates(_, _, _, _)
PushCandidates(s, candidates, excluded, checkBlocked) ==
  IF candidates = << >> THEN s
  ELSE LET nextPrefix == Head(candidates)
           ok == /\ ~Includes(s.exploredPrefixes, nextPrefix)
                 /\ ~Includes(s.skippedPrefixes, nextPrefix)
                 /\ ~Includes(s.prefixQueue, nextPrefix)
                 /\ ~Includes(excluded, nextPrefix)
                 /\ (checkBlocked => ~isBlockedByParent(s, nextPrefix))
       IN PushCandidates(
            IF ok THEN [s EXCEPT !.prefixQueue = Append(@, nextPrefix)] ELSE s,
            Tail(candidates), excluded, checkBlocked)

Extend(prefix, letters) == [i \in 1..Len(letters) |-> prefix \o << letters[i] >>]

\* the branch of generateOptimalNextPrefixes for results of a short prefix
PushFromResults(s, prefix, commonPrefixes) ==
  LET s1 == PushCandidates(s, commonPrefixes, << >>, TRUE)
  IN IF Len(commonPrefixes) < 2 \/ Len(prefix) < 2
     THEN PushCandidates(s1, Extend(prefix, commonNextLetters),
                         commonPrefixes, TRUE)
     ELSE s1

\* generateOptimalNextPrefixes without the limit of depth
generateOptimalNextPrefixes_AnyDepth(s, prefix, results) ==
  IF Len(results) > 0
  THEN PushFromResults(s, prefix, extractCommonPrefixes(results, prefix))
  ELSE IF Len(prefix) <= 1
       THEN PushCandidates(s, Extend(prefix, commonLetters), << >>, FALSE)
       ELSE s

generateOptimalNextPrefixes(s, prefix, results) ==
  IF Len(results) > 0
  THEN IF Len(prefix) < 3
       THEN PushFromResults(s, prefix, extractCommonPrefixes(results, prefix))
       ELSE s
  ELSE IF Len(prefix) <= 1
       THEN PushCandidates(s, Extend(prefix, commonLetters), << >>, FALSE)
       ELSE s

\* the callback is set: every call is counted, and the arguments of the
\* last one are kept
notifyCallback(s, newNames, isComplete) ==
  [s EXCEPT !.notified = @ + 1,
            !.lastCall = [names |-> newNames, complete |-> isComplete]]

\* handleResults with efficiency computed from the names counted before
\* this result was added
handleResults_StaleEfficiency(s, prefix, names, fromCache) ==
  LET s0 == IF fromCache THEN s ELSE Note(s, prefix, "succ")
      s1 == [s0 EXCEPT
               !.successfulRequests = IF fromCache THEN @ ELSE @ + 1,
               !.exploredPrefixes = Append(@, prefix),
               !.currentPrefixes = Without(@, prefix),
               !.uniqueNames = AddNames(@, names)]
      s2 == updatePatternScore(s1, prefix, Len(names))
      s3 == generateOptimalNextPrefixes(s2, prefix, names)
      s4 == IF s3.successfulRequests > 0
            THEN [s3 EXCEPT !.efficiency =
                               << Len(s.uniqueNames), s3.successfulRequests >>]
            ELSE s3
      newNames == SubSeq(s1.uniqueNames, Len(s.uniqueNames) + 1, Len(s1.uniqueNames))
  IN notifyCallback(s4, newNames, FALSE)

\* the efficiency update of handleResults; efficiency is kept as the exact
\* ratio << numerator, denominator >>
UpdateEfficiency(s) ==
  IF s.successfulRequests > 0
  THEN [s EXCEPT !.efficiency = << Len(s.uniqueNames), s.successfulRequests >>]
  ELSE s

handleResults(s, prefix, names, fromCache) ==
  LET s0 == IF fromCache THEN s ELSE Note(s, prefix, "succ")
      s1 == [s0 EXCEPT
               !.successfulRequests = IF fromCache THEN @ ELSE @ + 1,
               !.exploredPrefixes = Append(@, prefix),
               !.currentPrefixes = Without(@, prefix),
               !.uniqueNames = AddNames(@, names)]
      newNames == SubSeq(s1.uniqueNames, Len(s.uniqueNames) + 1, Len(s1.uniqueNames))
  IN notifyCallback(
       UpdateEfficiency(
         generateOptimalNextPrefixes(
           updatePatternScore(s1, prefix, Len(names)), prefix, names)),
       newNames, FALSE)

(***************************************************************************)
(* Prefix task executor.  A task is one call processQueue made of          *)
(* processPrefix: [id, prefix, retryCount, pc, wait, loop], pc "fetch"     *)
(* while the fetch is pending and "backoff" while it waits after a 429,    *)
(* for wait milliseconds; loop is the activation of processQueue that      *)
(* holds its promise in batchPromises.                                     *)
(***************************************************************************)
TaskOf(s, id) == CHOOSE t \in s.tasks : t.id = id
\* identities are reused: the least number no live object carries
FreeTaskId(s) ==
  CHOOSE i \in 1..(Cardinality(s.tasks) + 1) :
    /\ \A t \in s.tasks : t.id # i
FreeLoopId(s) ==
  CHOOSE i \in 1..(Cardinality(s.tasks) + Cardinality(s.loops) + 1) :
    /\ \A l \in s.loops : l.id # i
    /\ \A t \in s.tasks : t.loop # i
FreePromiseId(s) ==
  CHOOSE i \in 1..(Cardinality(s.pendingStops) + 2) :
    i \notin s.pendingStops \cup { s.completionSignal }
DropTask(s, id) == [s EXCEPT !.tasks = { t \in @ : t.id # id }]
Pending(s, id) == \E t \in s.tasks : t.id = id

\* processPrefix that handles a cache hit like a fresh result
processPrefix_CountsCacheHits(s, id, loop, prefix, retryCount) ==
  LET s0 == DropTask(s, id)
  IN IF ~s0.isRunning THEN s0
     ELSE IF Has(s0.cachedResults, prefix)
          THEN handleResults(s0, prefix, s0.cachedResults[prefix], FALSE)
     ELSE IF shouldSkipPrefix(s0, prefix)
          THEN [s0 EXCEPT !.skippedPrefixes = Append(@, prefix),
                          !.currentPrefixes = Without(@, prefix)]
     ELSE [Note(s0, prefix, "fetch") EXCEPT
             !.totalRequests = @ + 1,
             !.requestTimestamps = @ + 1,
             !.tasks = @ \cup { [id |-> id, prefix |-> prefix,
                                 retryCount |-> retryCount,
                                 pc |-> "fetch", wait |-> 0,
                                 loop |-> loop] }]

\* processPrefix up to its first await: the task is pending afterwards
\* exactly if the fetch was issued
processPrefix(s, id, loop, prefix, retryCount) ==
  LET s0 == DropTask(s, id)
  IN IF ~s0.isRunning THEN s0
     ELSE IF Has(s0.cachedResults, prefix)
          THEN handleResults(s0, prefix, s0.cachedResults[prefix], TRUE)
     ELSE IF shouldSkipPrefix(s0, prefix)
          THEN [s0 EXCEPT !.skippedPrefixes = Append(@, prefix),
                          !.currentPrefixes = Without(@, prefix)]
     ELSE [Note(s0, prefix, "fetch") EXCEPT
             !.totalRequests = @ + 1,
             !.requestTimestamps = @ + 1,
             !.tasks = @ \cup { [id |-> id, prefix |-> prefix,
                                 retryCount |-> retryCount,
                                 pc |-> "fetch", wait |-> 0,
                                 loop |-> loop] }]

\* a catch block that takes the failed request out of totalRequests
catchError_UncountsRequest(s, prefix) ==
  LET s1 == [Note(s, prefix, "fail") EXCEPT !.failedRequests = @ + 1,
                                            !.totalRequests = @ - 1]
      fakeNames == generateFakeNamesForPrefix(s1, prefix)
  IN handleResults([s1 EXCEPT !.cachedResults = Put(@, prefix, fakeNames)],
                   prefix, fakeNames, FALSE)

\* the wait after the 429 answer to the attempt numbered retryCount
waitTime(retryCount) == Min(5000, 500 * 2^retryCount)

\* the task t got a 429 answer and waits
backoff(t) == [t EXCEPT !.pc = "backoff", !.wait = waitTime(t.retryCount)]

\* the catch block of processPrefix
catchError(s, prefix) ==
  LET s1 == [Note(s, prefix, "fail") EXCEPT !.failedRequests = @ + 1]
      fakeNames == generateFakeNamesForPrefix(s1, prefix)
  IN handleResults([s1 EXCEPT !.cachedResults = Put(@, prefix, fakeNames)],
                   prefix, fakeNames, FALSE)

\* response.ok: the names are cached and handled
onSuccess(s, prefix, names) ==
  handleResults([s EXCEPT !.cachedResults = Put(@, prefix, names)],
                prefix, names, FALSE)

\* a status that is not ok and is not retried: counted, thrown, caught
onFailure(s, prefix) ==
  catchError([Note(s, prefix, "fail") EXCEPT !.failedRequests = @ + 1], prefix)

(***************************************************************************)
(* Orchestrator.  An activation of processQueue that has dispatched is a   *)
(* record [id, conc, phase, delay, settled]: phase "delay" while it awaits *)
(* adaptiveDelay inside its loop, "race" once it waits on                  *)
(* Promise.race(batchPromises); delay is the time of its last              *)
(* adaptiveDelay; settled when a promise of its batch has settled.         *)
(***************************************************************************)
LoopOf(s, id) == CHOOSE l \in s.loops : l.id = id
HasLoop(s, id) == \E l \in s.loops : l.id = id
DropLoop(s, id) == [s EXCEPT !.loops = { l \in @ : l.id # id }]
SetLoop(s, l) == [s EXCEPT !.loops = { x \in @ : x.id # l.id } \cup { l }]

\* the time adaptiveDelay waits, in half milliseconds (delay * 1.5 is exact)
adaptiveDelay(s) ==
  IF s.rateLimited > 0
  THEN Min(2 * 1000, 3 * s.options.delayBetweenRequests)
  ELSE 2 * s.options.delayBetweenRequests

calculateOptimalConcurrency(s) ==
  IF s.requestTimestamps >= 10
  THEN IF s.rateLimited > 0
       THEN Max(1, s.options.maxConcurrentRequests - 1)
       ELSE IF s.successfulRequests > 10 /\ s.rateLimited = 0
            THEN Min(s.options.maxConcurrentRequests, 5)
            ELSE 1
  ELSE 1

\* requestTimestamps is kept as its length; slice(-100) keeps the last 100
trimTimestamps(s) ==
  IF s.requestTimestamps >= 10 /\ s.requestTimestamps > 100
  THEN [s EXCEPT !.requestTimestamps = 100]
  ELSE s

\* prefixQueue.shift() of selectOptimalPrefix, and the push to currentPrefixes
Shift(s, sorted) ==
  [s EXCEPT !.prefixQueue = Tail(sorted),
            !.currentPrefixes = Append(@, Head(sorted))]

selectOptimalPrefix(s) ==
  Shift(s, IF s.options.mlEnabled
           THEN SortQueue(s, << >>, s.prefixQueue)
           ELSE s.prefixQueue)

\* a .finally callback that hands all names to the callback on completion
finallyCallback_SendsAllNames(s) ==
  LET s1 == [s EXCEPT !.activeRequests = @ - 1]
  IN IF s1.activeRequests = 0 /\ Len(s1.prefixQueue) = 0
     THEN LET s2 == IF s1.completionSignal # 0
                    THEN [s1 EXCEPT
                            !.resolved = @ \cup { << "signal", s1.activeRequests,
                                                     Cardinality(s1.tasks) >> },
                            !.pendingStops = @ \ { s1.completionSignal },
                            !.completionSignal = 0]
                    ELSE s1
          IN IF s2.isRunning
             THEN notifyCallback([s2 EXCEPT !.isRunning = FALSE], s2.uniqueNames, TRUE)
             ELSE s2
     ELSE s1

\* the .finally callback of a task's promise
finallyCallback(s) ==
  LET s1 == [s EXCEPT !.activeRequests = @ - 1]
  IN IF s1.activeRequests = 0 /\ Len(s1.prefixQueue) = 0
     THEN LET s2 == IF s1.completionSignal # 0
                    THEN [s1 EXCEPT
                            !.resolved = @ \cup { << "signal", s1.activeRequests,
                                                     Cardinality(s1.tasks) >> },
                            !.pendingStops = @ \ { s1.completionSignal },
                            !.completionSignal = 0]
                    ELSE s1
          IN IF s2.isRunning
             THEN notifyCallback([s2 EXCEPT !.isRunning = FALSE], << >>, TRUE)
             ELSE s2
     ELSE s1

\* one iteration of the while loop that dispatches: selectOptimalPrefix,
\* activeRequests++, processPrefix up to its first await, then the loop
\* awaits adaptiveDelay; a task that finished already runs its finally
\* s is the state after processPrefix(prefix) has run to its first await
Dispatched(s, id, loop, conc, settled) ==
  LET done == ~Pending(s, id)
      s1 == SetLoop(s, [id |-> loop, conc |-> conc, phase |-> "delay",
                        delay |-> adaptiveDelay(s),
                        settled |-> settled \/ done])
  IN IF done THEN finallyCallback(s1) ELSE s1

\* s is the state after selectOptimalPrefix, the prefix it returned last
\* in currentPrefixes
Selected(s, loop, conc, settled) ==
  Dispatched(processPrefix([s EXCEPT !.activeRequests = @ + 1], FreeTaskId(s),
                           loop, s.currentPrefixes[Len(s.currentPrefixes)], 0),
             FreeTaskId(s), loop, conc, settled)

dispatch(s, loop, conc, settled) ==
  Selected(selectOptimalPrefix(s), loop, conc, settled)

\* processQueue from its entry to its first await (or its end)
processQueue(s) ==
  IF ~s.isRunning \/ s.isPaused THEN s
  ELSE LET currentConcurrency == calculateOptimalConcurrency(s)
           s1 == trimTimestamps(s)
       IN IF Len(s1.prefixQueue) > 0 /\ s1.activeRequests < currentConcurrency
          THEN dispatch(s1, FreeLoopId(s1), currentConcurrency, FALSE)
          ELSE s1

\* the reaction to Promise.race(batchPromises)
raceThen(s) ==
  IF s.isRunning /\ ~s.isPaused THEN processQueue(s) ELSE s

\* a task's promise settles: its finally callback runs, then the reaction
\* of the activation that races on it
taskDone(s, task) ==
  LET s1 == finallyCallback(DropTask(s, task.id))
  IN IF HasLoop(s1, task.loop)
     THEN LET l == LoopOf(s1, task.loop)
          IN IF l.phase = "race" THEN raceThen(DropLoop(s1, l.id))
             ELSE SetLoop(s1, [l EXCEPT !.settled = TRUE])
     ELSE s1

\* s is the state after the retry call of processPrefix inside a task has
\* run to its first await: the task goes on pending, or its promise settles
Returned(s, task) == IF Pending(s, task.id) THEN s ELSE taskDone(s, task)

\* the loop of processQueue without the test of activeRequests
loopResume_NoCeilingTest(s, l) ==
  IF Len(s.prefixQueue) > 0
  THEN dispatch(s, l.id, l.conc, l.settled)
  ELSE IF l.settled THEN raceThen(DropLoop(s, l.id))
       ELSE SetLoop(s, [l EXCEPT !.phase = "race"])

\* the 429 branch of processPrefix after its wait: one more attempt that
\* leaves a copy of the prefix in the queue
afterBackoff_RetriesOnceMore(s, t) ==
  IF t.retryCount <= s.options.maxRetries
  THEN Returned(processPrefix([s EXCEPT !.prefixQueue = << t.prefix >> \o @],
                              t.id, t.loop, t.prefix, t.retryCount + 1), t)
  ELSE taskDone(onFailure(s, t.prefix), t)

\* the 429 branch of processPrefix after its wait: the retry, which leaves
\* a copy of the prefix in the queue, or the fall through to the failure
afterBackoff(s, t) ==
  IF t.retryCount < s.options.maxRetries
  THEN Returned(processPrefix([s EXCEPT !.prefixQueue = << t.prefix >> \o @],
                              t.id, t.loop, t.prefix, t.retryCount + 1), t)
  ELSE taskDone(onFailure(s, t.prefix), t)

\* adaptiveDelay of an activation is over: the loop condition is evaluated
\* again, and the loop either dispatches or ends
loopResume(s, l) ==
  IF Len(s.prefixQueue) > 0 /\ s.activeRequests < l.conc
  THEN dispatch(s, l.id, l.conc, l.settled)
  ELSE IF l.settled THEN raceThen(DropLoop(s, l.id))
       ELSE SetLoop(s, [l EXCEPT !.phase = "race"])

(***************************************************************************)
(* Public methods.                                                         *)
(***************************************************************************)
\* start() that seeds options.initialPrefixes whatever mlEnabled is
start_SeedsInitialPrefixes(s) ==
  IF s.isRunning THEN s
  ELSE processQueue(
         [s EXCEPT !.isRunning = TRUE,
                   !.isPaused = FALSE,
                   !.prefixQueue = s.options.initialPrefixes])

start(s) ==
  IF s.isRunning THEN s
  ELSE processQueue(
         [s EXCEPT !.isRunning = TRUE,
                   !.isPaused = FALSE,
                   !.prefixQueue = IF s.options.mlEnabled
                                   THEN s.options.initialPrefixes
                                   ELSE [i \in 1..Len(alphabet) |-> << alphabet[i] >>]])

pause(s) == [s EXCEPT !.isPaused = TRUE]

resume(s) ==
  IF ~s.isRunning THEN s
  ELSE processQueue([s EXCEPT !.isPaused = FALSE])

\* stop() that returns a resolved promise whether or not requests are active
stop_ResolvesAtOnce(s, awaited) ==
  LET s1 == [s EXCEPT !.isRunning = FALSE, !.isPaused = FALSE]
  IN IF awaited
     THEN [s1 EXCEPT !.resolved = @ \cup { << "at once", s1.activeRequests,
                                              Cardinality(s1.tasks) >> }]
     ELSE s1

\* stop() returns a promise: a new one kept in completionSignal while
\* requests are active, a resolved one otherwise.  awaited tells whether a
\* caller holds the promise (reset() drops it).
stop(s, awaited) ==
  LET s1 == [s EXCEPT !.isRunning = FALSE, !.isPaused = FALSE]
  IN IF s1.activeRequests > 0
     THEN [s1 EXCEPT !.completionSignal = FreePromiseId(s1),
                     !.pendingStops = IF awaited THEN @ \cup { FreePromiseId(s1) } ELSE @]
     ELSE IF awaited
          THEN [s1 EXCEPT !.resolved = @ \cup { << "at once", s1.activeRequests,
                                                   Cardinality(s1.tasks) >> }]
          ELSE s1

\* reset() that leaves requestTimestamps alone
reset_KeepsTimestamps(s) ==
  [stop(s, FALSE) EXCEPT
     !.totalRequests = 0,
     !.successfulRequests = 0,
     !.failedRequests = 0,
     !.uniqueNames = << >>,
     !.rateLimited = 0,
     !.exploredPrefixes = << >>,
     !.skippedPrefixes = << >>,
     !.currentPrefixes = << >>,
     !.blockedPrefixes = << >>,
     !.efficiency = << 0, 1 >>,
     !.prefixQueue = << >>,
     !.prefixPatterns = EmptyMap,
     !.cachedResults = EmptyMap,
     !.ledger = EmptyMap]

reset(s) ==
  [stop(s, FALSE) EXCEPT
     !.totalRequests = 0,
     !.successfulRequests = 0,
     !.failedRequests = 0,
     !.uniqueNames = << >>,
     !.rateLimited = 0,
     !.exploredPrefixes = << >>,
     !.skippedPrefixes = << >>,
     !.currentPrefixes = << >>,
     !.blockedPrefixes = << >>,
     !.efficiency = << 0, 1 >>,
     !.prefixQueue = << >>,
     !.prefixPatterns = EmptyMap,
     !.cachedResults = EmptyMap,
     !.requestTimestamps = 0,
     !.ledger = EmptyMap]

(***************************************************************************)
(* State.                                                                  *)
(***************************************************************************)
VARIABLES
  options, server, profile,
  isRunning, isPaused, prefixQueue, activeRequests, completionSignal,
  prefixPatterns, cachedResults, requestTimestamps,
  totalRequests, successfulRequests, failedRequests, uniqueNames, rateLimited,
  exploredPrefixes, skippedPrefixes, currentPrefixes, blockedPrefixes, efficiency,
  tasks, loops,
  \* history: the ledger since the last reset(), callback calls and the
  \* last of them, promises of stop() a caller awaits, and for every such
  \* promise that resolved how it resolved, activeRequests and the tasks in
  \* flight at that moment
  ledger, notified, lastCall, pendingStops, resolved,
  \* what the environment has done so far
  events, started

vars ==
  << options, server, profile,
     isRunning, isPaused, prefixQueue, activeRequests, completionSignal,
     prefixPatterns, cachedResults, requestTimestamps,
     totalRequests, successfulRequests, failedRequests, uniqueNames, rateLimited,
     exploredPrefixes, skippedPrefixes, currentPrefixes, blockedPrefixes, efficiency,
     tasks, loops,
     ledger, notified, lastCall, pendingStops, resolved,
     events, started >>

\* the fields of the service (and the history kept with them) as one record
Cur ==
  [ options |-> options,
    isRunning |-> isRunning, isPaused |-> isPaused, prefixQueue |-> prefixQueue,
    activeRequests |-> activeRequests, completionSignal |-> completionSignal,
    prefixPatterns |-> prefixPatterns, cachedResults |-> cachedResults,
    requestTimestamps |-> requestTimestamps,
    totalRequests |-> totalRequests, successfulRequests |-> successfulRequests,
    failedRequests |-> failedRequests, uniqueNames |-> uniqueNames,
    rateLimited |-> rateLimited, exploredPrefixes |-> exploredPrefixes,
    skippedPrefixes |-> skippedPrefixes, currentPrefixes |-> currentPrefixes,
    blockedPrefixes |-> blockedPrefixes, efficiency |-> efficiency,
    tasks |-> tasks, loops |-> loops,
    ledger |-> ledger, notified |-> notified, lastCall |-> lastCall,
    pendingStops |-> pendingStops,
    resolved |-> resolved ]

Commit(next) ==
  \E s \in { next } :
    /\ isRunning' = s.isRunning
    /\ isPaused' = s.isPaused
    /\ prefixQueue' = s.prefixQueue
    /\ activeRequests' = s.activeRequests
    /\ completionSignal' = s.completionSignal
    /\ prefixPatterns' = s.prefixPatterns
    /\ cachedResults' = s.cachedResults
    /\ requestTimestamps' = s.requestTimestamps
    /\ totalRequests' = s.totalRequests
    /\ successfulRequests' = s.successfulRequests
    /\ failedRequests' = s.failedRequests
    /\ uniqueNames' = s.uniqueNames
    /\ rateLimited' = s.rateLimited
    /\ exploredPrefixes' = s.exploredPrefixes
    /\ skippedPrefixes' = s.skippedPrefixes
    /\ currentPrefixes' = s.currentPrefixes
    /\ blockedPrefixes' = s.blockedPrefixes
    /\ efficiency' = s.efficiency
    /\ tasks' = s.tasks
    /\ loops' = s.loops
    /\ ledger' = s.ledger
    /\ notified' = s.notified
    /\ lastCall' = s.lastCall
    /\ pendingStops' = s.pendingStops
    /\ resolved' = s.resolved
    /\ UNCHANGED << options, server, profile >>

(***************************************************************************)
(* Configurations: the options the constructor is given.                   *)
(***************************************************************************)
\* A scenario fixes the options, the server and what the environment may
\* do: in a "lifecycle" scenario any event, up to MaxEvents; in a "load"
\* scenario (a run long enough for the concurrency ceiling to rise) only
\* 429 answers, up to MaxRejections; in a "quiet" scenario nothing but the
\* first start() and answers 200.
Options(seeds, retries) ==
  [ maxConcurrentRequests |-> 3, maxRetries |-> retries,
    initialPrefixes |-> seeds, mlEnabled |-> TRUE,
    delayBetweenRequests |-> 250 ]

Scenarios ==
  { [ options |-> Options(<< <<"a","l","i">>, <<"a","l">>, <<"a","l","i","a">> >>, 1),
      server |-> "matching", profile |-> "lifecycle" ],
    [ options |-> [Options(<< <<"a","n">> >>, 2) EXCEPT
                     !.delayBetweenRequests = 2000],
      server |-> "scenario", profile |-> "lifecycle" ],
    [ options |-> Options(<< <<"a">> >>, 1),
      server |-> "scenario", profile |-> "load" ],
    [ options |-> Options(<< >>, 1),
      server |-> "scenario", profile |-> "lifecycle" ],
    [ options |-> [Options(<< <<"a">> >>, 1) EXCEPT
                     !.mlEnabled = FALSE, !.maxConcurrentRequests = 1],
      server |-> "scenario", profile |-> "quiet" ] }

Init ==
  /\ \E sc \in Scenarios :
       /\ options = sc.options
       /\ server = sc.server
       /\ profile = sc.profile
  /\ isRunning = FALSE
  /\ isPaused = FALSE
  /\ prefixQueue = << >>
  /\ activeRequests = 0
  /\ completionSignal = 0
  /\ prefixPatterns = EmptyMap
  /\ cachedResults = EmptyMap
  /\ requestTimestamps = 0
  /\ totalRequests = 0
  /\ successfulRequests = 0
  /\ failedRequests = 0
  /\ uniqueNames = << >>
  /\ rateLimited = 0
  /\ exploredPrefixes = << >>
  /\ skippedPrefixes = << >>
  /\ currentPrefixes = << >>
  /\ blockedPrefixes = << >>
  /\ efficiency = << 0, 1 >>
  /\ tasks = {}
  /\ loops = {}
  /\ ledger = EmptyMap
  /\ notified = 0
  /\ lastCall = [names |-> << >>, complete |-> FALSE]
  /\ pendingStops = {}
  /\ resolved = {}
  /\ events = 0
  /\ started = FALSE

(***************************************************************************)
(* Actions: one macrotask each.                                            *)
(***************************************************************************)
\* a call of a public method after the first, or a failing answer
Event == profile = "lifecycle" /\ events < MaxEvents /\ events' = events + 1
\* a 429 answer
Rejection ==
  /\ events < (IF profile = "load" THEN MaxRejections
               ELSE IF profile = "quiet" THEN 0 ELSE MaxEvents)
  /\ events' = events + 1

\* a fetch is answered with an error status: an event of a "lifecycle"
\* scenario; in a "load" scenario one fetch is, after the rejections: the
\* retry of a prefix whose queued copy a second task is fetching as well,
\* or has fetched already
Failure(t) ==
  \/ Event
  \/ /\ profile = "load"
     /\ events = MaxRejections
     /\ t.retryCount > 0
     /\ \/ \E u \in tasks : u # t /\ u.prefix = t.prefix /\ u.pc = "fetch"
        \/ Has(cachedResults, t.prefix)
     /\ events' = events + 1

\* the first call is start(); it is no event
CallStart ==
  /\ IF started THEN Event ELSE UNCHANGED events
  /\ started' = TRUE
  /\ Commit(start(Cur))

CallPause == started /\ Event /\ Commit(pause(Cur)) /\ UNCHANGED started
CallResume ==
  started /\ Event /\ Commit(resume(Cur)) /\ UNCHANGED started
CallStop == started /\ Event /\ Commit(stop(Cur, TRUE)) /\ UNCHANGED started
CallReset == started /\ Event /\ Commit(reset(Cur)) /\ UNCHANGED started

\* the fetch of a task settles with status 200
FetchOk ==
  \E t \in tasks :
    /\ t.pc = "fetch"
    /\ Commit(taskDone(onSuccess(Note(Cur, t.prefix, "ok"), t.prefix,
                                  Remote(server, t.prefix)), t))
    /\ UNCHANGED << events, started >>

\* the fetch settles with status 429: rateLimited++, then the backoff wait
Fetch429 ==
  \E t \in tasks :
    /\ t.pc = "fetch"
    /\ Rejection
    /\ Commit([Note(Cur, t.prefix, "r429") EXCEPT !.rateLimited = @ + 1,
                          !.tasks = (@ \ { t }) \cup { backoff(t) }])
    /\ UNCHANGED started

\* the fetch settles with another status that is not ok
FetchError ==
  \E t \in tasks :
    /\ t.pc = "fetch"
    /\ Failure(t)
    /\ Commit(taskDone(onFailure(Note(Cur, t.prefix, "bad"), t.prefix), t))
    /\ UNCHANGED started

\* the fetch (or response.json()) throws
FetchThrows ==
  \E t \in tasks :
    /\ t.pc = "fetch"
    /\ Event
    /\ Commit(taskDone(catchError(Note(Cur, t.prefix, "bad"), t.prefix), t))
    /\ UNCHANGED started

\* the backoff wait of a task is over: retry, or fall through to failure
BackoffEnds ==
  \E t \in tasks :
    /\ t.pc = "backoff"
    /\ Commit(afterBackoff(Cur, t))
    /\ UNCHANGED << events, started >>

\* adaptiveDelay of an activation of processQueue is over
LoopResume ==
  \E l \in loops :
    /\ l.phase = "delay"
    /\ Commit(loopResume(Cur, l))
    /\ UNCHANGED << events, started >>

Next ==
  \/ CallStart
  \/ CallPause
  \/ CallResume
  \/ CallStop
  \/ CallReset
  \/ FetchOk
  \/ Fetch429
  \/ FetchError
  \/ FetchThrows
  \/ BackoffEnds
  \/ LoopResume

Spec == Init /\ [][Next]_vars

(***************************************************************************)
(* Properties.                                                             *)
(***************************************************************************)
Fetches(l, prefix) == Entry(l, prefix).fetch
ProperPrefix(p, q) == StartsWith(q, p) /\ p # q
NoDuplicates(seq) == \A i, j \in 1..Len(seq) : seq[i] = seq[j] => i = j
IsPrefixOf(a, b) == Len(a) <= Len(b) /\ SubSeq(b, 1, Len(a)) = a

\* C1: within one run (since the last reset()) the remote query is invoked
\* at most once for any prefix, whatever the interleaving, 429 retries
\* included.
C1_QueriedAtMostOnce ==
  \A p \in DOMAIN ledger : Fetches(ledger, p) <= 1

\* C1, read leniently: even when a fetch answered 429 is not counted, a
\* prefix has at most one fetch (pending or answered) to its name.
C1_QueriedOnceBesidesRetries ==
  \A p \in DOMAIN ledger : ledger[p].fetch - ledger[p].r429 <= 1

\* C2: uniqueNames never holds a name twice, also when overlapping result
\* sets add the same name, and within a run it only grows: a step either
\* extends it or is reset().
C2_UniqueNamesGrow ==
  [][ /\ NoDuplicates(uniqueNames')
      /\ IsPrefixOf(uniqueNames, uniqueNames') \/ CallReset ]_vars

\* two handled prefixes whose results overlap
C2_Witness ==
  \E p, q \in DOMAIN cachedResults :
    /\ p # q
    /\ Includes(exploredPrefixes, p) /\ Includes(exploredPrefixes, q)
    /\ \E i \in 1..Len(cachedResults[p]) :
         Includes(cachedResults[q], cachedResults[p][i])

\* C3: once a prefix is in blockedPrefixes, no prefix it is a proper prefix
\* of is sent to the remote query for the rest of the run: a step that
\* issues a fetch for q leaves no proper prefix of q blocked (the fetch is
\* the last thing a step does to the statistics).
C3_BlockedSubtreeNotQueried ==
  [][ \A q \in DOMAIN ledger' :
        Fetches(ledger', q) > Fetches(ledger, q) =>
          /\ \A i \in 1..Len(blockedPrefixes) :
               ~ProperPrefix(blockedPrefixes[i], q)
          /\ \A i \in 1..Len(blockedPrefixes') :
               ~ProperPrefix(blockedPrefixes'[i], q) ]_vars

\* a descendant of a blocked prefix was taken from the queue and skipped
\* without a fetch, although its own score is positive
C3_Witness ==
  \E i \in 1..Len(blockedPrefixes), j \in 1..Len(skippedPrefixes) :
    /\ ProperPrefix(blockedPrefixes[i], skippedPrefixes[j])
    /\ Fetches(ledger, skippedPrefixes[j]) = 0
    /\ getPatternScore(Cur, skippedPrefixes[j]) > 0

\* C4: efficiency is exactly |uniqueNames| / successfulRequests, and 0
\* while successfulRequests is 0 (efficiency is the ratio << n, d >>).
C4_Efficiency ==
  IF successfulRequests = 0
  THEN efficiency[1] = 0
  ELSE efficiency[1] * successfulRequests = Len(uniqueNames) * efficiency[2]

\* several completions, one of which added nothing new
C4_Witness ==
  /\ successfulRequests >= 2
  /\ Len(uniqueNames) >= 1
  /\ Len(uniqueNames) < 2 * successfulRequests
  /\ efficiency[2] = successfulRequests

\* C5: from pause() to the next resume() no prefix leaves the queue to be
\* dispatched and activeRequests is never incremented, also when pause()
\* arrives while the loop waits in adaptiveDelay.
C5_PausedDispatchesNothing ==
  [][ (isPaused /\ isPaused') =>
        /\ activeRequests' <= activeRequests
        /\ \A i \in 1..Len(prefixQueue) :
             Count(prefixQueue', prefixQueue[i]) >= Count(prefixQueue, prefixQueue[i])
    ]_vars

Quantity ==
  Len(prefixQueue) + activeRequests + Len(exploredPrefixes)
    + Len(skippedPrefixes) + Len(blockedPrefixes)
InFlight(ts, p) == \E t \in ts : t.prefix = p
\* in the frontier, in flight, explored or skipped after the step
StillAccounted(p) ==
  \/ Includes(prefixQueue', p)
  \/ InFlight(tasks', p)
  \/ Includes(exploredPrefixes', p)
  \/ Includes(skippedPrefixes', p)

\* C6: pausing loses no queued prefix: through every step of a running
\* service from pause() to the return of resume(), a prefix in the frontier
\* (or in flight) is afterwards in the frontier, in flight, explored or
\* skipped; and pause() and resume() themselves leave frontier size +
\* in-flight + explored + skipped + blocked as it was.
C6_PauseLosesNothing ==
  [][ (isRunning /\ isRunning' /\ (isPaused \/ isPaused')) =>
        /\ \A i \in 1..Len(prefixQueue) : StillAccounted(prefixQueue[i])
        /\ \A t \in tasks : StillAccounted(t.prefix)
        /\ (CallPause \/ (isPaused /\ CallResume)) => Quantity' = Quantity
    ]_vars

\* the run is over: nothing queued, nothing in flight, and no stop() made it so
RunCompleted ==
  /\ started /\ ~isRunning
  /\ tasks = {} /\ Len(prefixQueue) = 0
  /\ resolved = {} /\ pendingStops = {}
\* the server answered p with 429 k times, 1 <= k <= maxRetries, and with
\* 200 otherwise
RetriedThenSucceeded(p) ==
  /\ ledger[p].r429 \in 1..options.maxRetries
  /\ ledger[p].ok >= 1
  /\ ledger[p].bad = 0
RECURSIVE SumOf429(_, _)
SumOf429(l, ps) ==
  IF ps = {} THEN 0
  ELSE LET p == CHOOSE x \in ps : TRUE
       IN l[p].r429 + SumOf429(l, ps \ {p})

\* C7: when the run completes, a prefix the server answered with 429 k
\* times (1 <= k <= maxRetries) and then successfully accounts for exactly
\* one increment of successfulRequests and none of failedRequests, and
\* rateLimited holds the 429 answers, for every concurrency ceiling.
C7_RetryCountedOnce ==
  RunCompleted =>
    /\ \A p \in DOMAIN ledger :
         RetriedThenSucceeded(p) => ledger[p].succ = 1 /\ ledger[p].fail = 0
    /\ rateLimited = SumOf429(ledger, DOMAIN ledger)

\* C8: a promise of stop() never resolves while a task is in flight:
\* whenever one resolved, activeRequests was 0 and no task was pending.
C8_ResolvedWhenIdle ==
  \A r \in resolved : r[2] = 0 /\ r[3] = 0

\* a promise returned while requests were active has resolved
C8_Witness == << "signal", 0, 0 >> \in resolved

\* C9: every promise of stop() resolves once the in-flight queries have
\* returned, also when the queue is not empty at stop() and when stop() or
\* reset() is called again first: with no task in flight and no timer of
\* the service pending, no caller still waits for stop().
C9_StopResolves ==
  (tasks = {} /\ loops = {}) => pendingStops = {}

Cleared ==
  /\ totalRequests = 0 /\ successfulRequests = 0 /\ failedRequests = 0
  /\ rateLimited = 0 /\ efficiency[1] = 0
  /\ uniqueNames = << >> /\ exploredPrefixes = << >> /\ skippedPrefixes = << >>
  /\ currentPrefixes = << >> /\ blockedPrefixes = << >>
  /\ prefixQueue = << >>
  /\ cachedResults = EmptyMap /\ prefixPatterns = EmptyMap
  /\ requestTimestamps = 0

\* C10: immediately after reset() every counter is zero and the lists, the
\* frontier queue, the result cache, the score table and the request
\* timestamps are empty.
C10_ResetClears ==
  [][ CallReset => Cleared' ]_vars

\* everything is clear although a result was handled before and a request
\* of the run before is still in flight
C10_Witness ==
  /\ Cleared
  /\ notified >= 1
  /\ tasks # {}

\* C11: a start() after reset() behaves like a fresh run, also when reset()
\* came while tasks were in flight: no completion of a task of the run
\* before changes counters, names, cache, scores, blocked set or frontier.
\* In particular, from reset() until the next start() the service stays
\* cleared.
C11_ResetIsolatesRuns ==
  [][ (Cleared /\ ~isRunning /\ ~isRunning') => Cleared' ]_vars

\* C12: a Running service whose frontier is empty and that has no request
\* in flight stops by itself: no macrotask ends Running with an empty queue
\* and activeRequests = 0, also after a start() with an empty seed list or
\* after the last prefix was skipped.
C12_CompletesWhenIdle ==
  isRunning => (Len(prefixQueue) > 0 \/ activeRequests > 0)

\* C13: in a run that is never paused, stopped or reset and whose queries
\* all return (here: nothing happened but start() and answers 200), no
\* state is Running and unpaused with a non-empty frontier, no task in
\* flight and no activation of processQueue pending.
C13_NoStall ==
  events = 0 =>
    ~(/\ isRunning /\ ~isPaused
      /\ Len(prefixQueue) > 0
      /\ tasks = {} /\ activeRequests = 0
      /\ loops = {})

\* C14: activeRequests never exceeds options.maxConcurrentRequests, and a
\* task is dispatched only while activeRequests is below the ceiling that
\* its activation of processQueue computed for the batch: right after a
\* dispatch the activation awaits its delay and activeRequests, the new
\* task included, is within that ceiling, also with several activations
\* alive.
NewlyDispatched(t) ==
  /\ t \in tasks' /\ t \notin tasks
  /\ t.retryCount = 0 /\ t.pc = "fetch"
  /\ ~(\E u \in tasks : u.id = t.id /\ u.prefix = t.prefix)

C14_WithinCeiling ==
  [][ /\ activeRequests' <= options.maxConcurrentRequests
      /\ \A t \in tasks' :
           NewlyDispatched(t) =>
             \E l \in loops' :
               /\ l.id = t.loop /\ l.phase = "delay"
               /\ l.conc <= options.maxConcurrentRequests
               /\ activeRequests' <= l.conc ]_vars

\* two activations of processQueue are alive, one still inside its loop,
\* and the requests in flight use up the ceiling of each
C14_Witness ==
  /\ Cardinality(loops) >= 2
  /\ activeRequests >= 1
  /\ Cardinality(tasks) = activeRequests
  /\ \E l \in loops : l.phase = "delay"
  /\ \A l \in loops : l.conc = activeRequests

\* C15: totalRequests, successfulRequests, failedRequests and rateLimited
\* never decrease; the one step that lowers any of them is reset().
C15_CountersMonotone ==
  [][ \/ /\ totalRequests' >= totalRequests
         /\ successfulRequests' >= successfulRequests
         /\ failedRequests' >= failedRequests
         /\ rateLimited' >= rateLimited
      \/ CallReset ]_vars

\* all four counters have counted
C15_Witness ==
  /\ totalRequests >= 2 /\ successfulRequests >= 1
  /\ failedRequests >= 1 /\ rateLimited >= 1

\* C16: the progress callback is called after every prefix that finishes
\* processing, whether it was handled with results, skipped by
\* shouldSkipPrefix or blocked: a step other than reset() calls it at least
\* once for each prefix it adds to exploredPrefixes or to skippedPrefixes.
C16_NotifiedPerPrefix ==
  [][ \/ notified' - notified >=
           (Len(exploredPrefixes') - Len(exploredPrefixes))
           + (Len(skippedPrefixes') - Len(skippedPrefixes))
      \/ CallReset ]_vars

\* C17: when a run completes, the progress callback is called exactly once
\* more, with an empty list of names, after every call made for a prefix of
\* the run: the completing step makes one call beyond those for the
\* prefixes it handled, that call is its last and has no names, and no
\* task is left that could make a call later; no other step makes a call
\* beyond those for the prefixes it handled.
Completes ==
  /\ ~isRunning'
  /\ isRunning \/ CallStart
  /\ ~CallStop /\ ~CallReset

Handled == Len(exploredPrefixes') - Len(exploredPrefixes)

C17_CompletionNotifiedOnce ==
  [][ /\ Completes =>
           /\ notified' = notified + Handled + 1
           /\ lastCall' = [names |-> << >>, complete |-> TRUE]
           /\ tasks' = {} /\ activeRequests' = 0
      /\ (~Completes /\ ~CallReset) => notified' = notified + Handled ]_vars

\* a run that found names has completed undisturbed, and the last call of
\* the callback is the one for the completion
C17_Witness ==
  /\ started /\ ~isRunning /\ events = 0
  /\ lastCall = [names |-> << >>, complete |-> TRUE]
  /\ notified >= 2 /\ uniqueNames # << >>
  /\ prefixQueue = << >> /\ tasks = {}

\* C18: with the seed "a" and the endpoint that answers a with alice and
\* anna, al with nothing, an with anna and andy and every other prefix with
\* nothing, the run completes with uniqueNames = {alice, anna, andy} and al
\* in blockedPrefixes, and no prefix under al is ever dispatched.  Nothing
\* but start() and answers 200 happens; a state with no task in flight and
\* no activation of processQueue alive is final, so the run has to be
\* completed there.
InScenario ==
  /\ server = "scenario" /\ options.initialPrefixes = << <<"a">> >>
  /\ options.mlEnabled
  /\ started /\ events = 0

Final == tasks = {} /\ loops = {}

NamesFound == { uniqueNames[i] : i \in 1..Len(uniqueNames) }

Dispatches ==
  DOMAIN ledger
    \cup { exploredPrefixes[i] : i \in 1..Len(exploredPrefixes) }
    \cup { skippedPrefixes[i] : i \in 1..Len(skippedPrefixes) }
    \cup { currentPrefixes[i] : i \in 1..Len(currentPrefixes) }

NothingUnderAl ==
  \A p \in Dispatches : StartsWith(p, <<"a","l">>) => p = <<"a","l">>

C18_ScenarioCompletes ==
  InScenario =>
    /\ NothingUnderAl
    /\ Final =>
         /\ ~isRunning /\ prefixQueue = << >>
         /\ NamesFound = { alice, anna, andy }
         /\ Includes(blockedPrefixes, <<"a","l">>)

\* what remains true of the scenario: a run that does complete has the
\* names and the blocked prefix, and nothing under al is dispatched
C18_OutcomeIfCompleted ==
  InScenario =>
    /\ NothingUnderAl
    /\ (Final /\ ~isRunning) =>
         /\ prefixQueue = << >>
         /\ NamesFound = { alice, anna, andy }
         /\ Includes(blockedPrefixes, <<"a","l">>)

\* C19: start() of a service that is not running seeds the queue and makes
\* it Running, and start() of a running service changes nothing.  The seeds
\* are options.initialPrefixes when mlEnabled is set and the 26 letters of
\* the alphabet when it is not.  The step of start() runs processQueue up
\* to its first await, so the seeds are met in the queue, in the task just
\* dispatched, or among the prefixes handled or skipped at once; when
\* nothing was handled at once they are there exactly.  The service is
\* Running after the step unless the run completed within it.
Letters == [i \in 1..Len(alphabet) |-> << alphabet[i] >>]

JustDispatched(p) ==
  Cardinality({ t \in tasks' \ tasks : t.prefix = p /\ t.retryCount = 0 })

SeedsPlaced(p) ==
  Count(prefixQueue', p) + JustDispatched(p)
    + (Count(exploredPrefixes', p) - Count(exploredPrefixes, p))
    + (Count(skippedPrefixes', p) - Count(skippedPrefixes, p))

NothingHandled ==
  /\ exploredPrefixes' = exploredPrefixes
  /\ skippedPrefixes' = skippedPrefixes

ServiceUnchanged ==
  UNCHANGED << isRunning, isPaused, prefixQueue, activeRequests,
               completionSignal, prefixPatterns, cachedResults,
               requestTimestamps, totalRequests, successfulRequests,
               failedRequests, uniqueNames, rateLimited, exploredPrefixes,
               skippedPrefixes, currentPrefixes, blockedPrefixes, efficiency,
               tasks, loops >>

StartSeeds(seeds) ==
  /\ (isRunning /\ CallStart) => ServiceUnchanged
  /\ (~isRunning /\ CallStart) =>
       /\ isRunning' \/ (notified' > notified /\ lastCall'.complete)
       /\ ~isPaused'
       /\ \A p \in { seeds[i] : i \in 1..Len(seeds) }
                     \cup { prefixQueue'[i] : i \in 1..Len(prefixQueue') } :
            IF NothingHandled
            THEN SeedsPlaced(p) = Count(seeds, p)
            ELSE SeedsPlaced(p) >= Count(seeds, p)

C19_StartSeeds ==
  [][ StartSeeds(IF options.mlEnabled THEN options.initialPrefixes
                 ELSE Letters) ]_vars

\* the statement as written: options.initialPrefixes whatever mlEnabled is
C19_StartSeedsInitialPrefixes ==
  [][ StartSeeds(options.initialPrefixes) ]_vars

\* start() with mlEnabled off: the first letter is in flight, the other 25
\* are queued, and the configured seed is not among them
C19_Witness ==
  /\ ~options.mlEnabled /\ isRunning
  /\ options.initialPrefixes # Letters
  /\ totalRequests = 1
  /\ \E t \in tasks : prefixQueue = Tail(Letters) /\ t.prefix = Head(Letters)

\* C20: a cache hit in processPrefix issues no query and increments neither
\* successfulRequests nor totalRequests, and the cached names still go to
\* the name set and to the scorer.  A step of start(), resume() or of a
\* loop of processQueue dispatches at most one prefix and completes no
\* fetch, so a prefix such a step handles is one found in the cache.
HandledAtDispatch ==
  /\ CallStart \/ CallResume \/ LoopResume
  /\ Len(exploredPrefixes') = Len(exploredPrefixes) + 1

C20_CacheHit ==
  [][ HandledAtDispatch =>
        LET prefix == exploredPrefixes'[Len(exploredPrefixes')]
        IN /\ Has(cachedResults, prefix)
           /\ cachedResults' = cachedResults
           /\ tasks' = tasks /\ ledger' = ledger
           /\ totalRequests' = totalRequests
           /\ successfulRequests' = successfulRequests
           /\ requestTimestamps' = requestTimestamps
           /\ uniqueNames' = AddNames(uniqueNames, cachedResults[prefix])
           /\ prefixPatterns' =
                updatePatternScore(Cur, prefix,
                                   Len(cachedResults[prefix])).prefixPatterns
    ]_vars

\* a prefix with names was handled twice and fetched once, so that more
\* prefixes were handled than requests counted successful
C20_Witness ==
  /\ \E p \in DOMAIN cachedResults :
       /\ Count(exploredPrefixes, p) >= 2
       /\ Fetches(ledger, p) = 1
       /\ cachedResults[p] # << >>
  /\ successfulRequests < Len(exploredPrefixes)
  /\ failedRequests = 0

\* C21: the result cache is written once per prefix within a run: an entry
\* of cachedResults is never replaced by a different result set, whatever
\* completes later (a success, the fallback after a failure, a second task
\* for the same prefix); only reset() empties the cache.
C21_CacheWriteOnce ==
  [][ \/ \A p \in DOMAIN cachedResults :
           Has(cachedResults', p) /\ cachedResults'[p] = cachedResults[p]
      \/ CallReset ]_vars

\* C22: a rejection never raises the concurrency ceiling: in every state
\* calculateOptimalConcurrency() is at most what it would be in the same
\* state with rateLimited = 0, and it is at least 1.
C22_RejectionNeverRaises ==
  /\ calculateOptimalConcurrency(Cur) >= 1
  /\ calculateOptimalConcurrency(Cur)
       <= calculateOptimalConcurrency([Cur EXCEPT !.rateLimited = 0])

\* C23: the concurrency ceiling is 1 at the start, it exceeds 1 only with
\* at least 10 request timestamps recorded and no rejection in the run
\* (rateLimited = 0), and it never exceeds options.maxConcurrentRequests.
C23_CeilingRaisedOnlyWhenClean ==
  /\ ~started => calculateOptimalConcurrency(Cur) = 1
  /\ calculateOptimalConcurrency(Cur) <= options.maxConcurrentRequests
  /\ calculateOptimalConcurrency(Cur) > 1 =>
       (requestTimestamps >= 10 /\ rateLimited = 0)

\* C24: adaptiveDelay waits the configured base delay while rateLimited = 0
\* and the base delay times a fixed factor (1.5) once a rejection occurred;
\* so for every base delay the wait after a rejection is at least the wait
\* before it.  Delays are in half milliseconds.
\* the activation that dispatched the task t awaits adaptiveDelay next
DelayAfter(t) == (CHOOSE l \in loops' : l.id = t.loop).delay

C24_DelayGrowsOnRejection ==
  [][ \A t \in tasks' :
        NewlyDispatched(t) =>
          /\ DelayAfter(t) >= 2 * options.delayBetweenRequests
          /\ DelayAfter(t) = IF rateLimited' = 0
                             THEN 2 * options.delayBetweenRequests
                             ELSE 3 * options.delayBetweenRequests ]_vars

\* C25: a dispatch of a prefix that is answered 429 at every attempt
\* issues maxRetries + 1 queries: the attempts are numbered by retryCount
\* from 0 to maxRetries, after the attempt numbered retryCount the task
\* waits min(5000, 500 * 2^retryCount) ms, below maxRetries it then queries
\* again (in a running service, the prefix neither cached nor skipped by
\* then), and at maxRetries it queries no more and the failure is handled.
\* No task has a retryCount above maxRetries, so the recursion ends.
BackoffOver(t) == t \in tasks /\ t.pc = "backoff" /\ t \notin tasks'

Retried(t) ==
  /\ [t EXCEPT !.retryCount = @ + 1, !.pc = "fetch", !.wait = 0] \in tasks'
  /\ Fetches(ledger', t.prefix) = Fetches(ledger, t.prefix) + 1
  /\ totalRequests' = totalRequests + 1

GaveUp(t) ==
  /\ ~(\E u \in tasks' : u.id = t.id /\ u.retryCount > 0)
  /\ Fetches(ledger', t.prefix) = Fetches(ledger, t.prefix)
  /\ failedRequests' > failedRequests
  /\ Includes(exploredPrefixes', t.prefix)
  /\ Has(cachedResults', t.prefix)

TerminalFailure(t) ==
  /\ t \in tasks /\ t \notin tasks'
  /\ \/ t.pc = "fetch" /\ (FetchError \/ FetchThrows)
     \/ t.pc = "backoff" /\ t.retryCount >= options.maxRetries

C26_FailureCountedOnce ==
  [][ \A t \in tasks :
        TerminalFailure(t) =>
          /\ failedRequests' = failedRequests + 1
          /\ Includes(exploredPrefixes', t.prefix) ]_vars

\* C27: from stop() until a later start() no prefix leaves the frontier
\* queue and no query is issued: a loop of processQueue that is between
\* two dispatches does not drain the queue, and a task that backs off
\* after a 429 does not retry.
QueriesIssued ==
  totalRequests' > totalRequests
  \/ \E t \in tasks' : t \notin tasks /\ t.pc = "fetch"

C27_StoppedIsQuiet ==
  [][ (~isRunning /\ ~isRunning' /\ ~CallReset) =>
        /\ ~QueriesIssued
        /\ \A i \in 1..Len(prefixQueue) :
             Count(prefixQueue', prefixQueue[i])
               >= Count(prefixQueue, prefixQueue[i]) ]_vars

\* C28: at most one activation of processQueue is inside its dispatch loop
\* at any time: no second one starts, by resume() or by the continuation
\* of Promise.race, while an earlier one is suspended in adaptiveDelay.
InDispatchLoop == { l \in loops : l.phase = "delay" }

C28_SingleDispatchLoop == Cardinality(InDispatchLoop) <= 1

\* C29: a prefix is added to blockedPrefixes exactly when a result set
\* with no names is handled for a prefix of length 2 or more, never for a
\* prefix of length 1 and never for one with results, and it is not
\* removed within the run: a step other than reset() appends to
\* blockedPrefixes, in order, the prefixes it handled that are that long
\* and have no names.
Appended(old, new) == SubSeq(new, Len(old) + 1, Len(new))

RECURSIVE EmptyAndLong(_, _)
EmptyAndLong(handled, results) ==
  IF handled = << >> THEN << >>
  ELSE (IF Len(Head(handled)) >= 2 /\ results[Head(handled)] = << >>
        THEN << Head(handled) >> ELSE << >>)
       \o EmptyAndLong(Tail(handled), results)

C29_BlockedWhenEmpty ==
  [][ \/ /\ IsPrefixOf(blockedPrefixes, blockedPrefixes')
         /\ IsPrefixOf(exploredPrefixes, exploredPrefixes')
         /\ Appended(blockedPrefixes, blockedPrefixes')
              = EmptyAndLong(Appended(exploredPrefixes, exploredPrefixes'),
                             cachedResults')
      \/ CallReset ]_vars

\* a prefix of two letters without names is blocked; a prefix of one
\* letter without names and a prefix with names were handled and are not
C29_Witness ==
  /\ \E p \in DOMAIN cachedResults :
       Len(p) >= 2 /\ cachedResults[p] = << >> /\ Includes(blockedPrefixes, p)
  /\ \E p \in DOMAIN cachedResults :
       /\ Len(p) = 1 /\ cachedResults[p] = << >>
       /\ Includes(exploredPrefixes, p) /\ ~Includes(blockedPrefixes, p)
  /\ \E p \in DOMAIN cachedResults :
       /\ cachedResults[p] # << >>
       /\ Includes(exploredPrefixes, p) /\ ~Includes(blockedPrefixes, p)

\* C30: child generation never enqueues a blocked prefix, and a queued
\* descendant of a prefix that became blocked is dropped without a query
\* when it is selected.  A child is a prefix new in the queue whose parent
\* was handled in the step; no child starts with a member of
\* blockedPrefixes.  No query is issued for a prefix that starts with a
\* member of blockedPrefixes, and one that leaves the queue of a running
\* service is skipped, or handled from the cache.
StartsWithBlocked(blocked, q) ==
  \E i \in 1..Len(blocked) : StartsWith(q, blocked[i])

Children ==
  { q \in { prefixQueue'[i] : i \in 1..Len(prefixQueue') } :
      /\ ~Includes(prefixQueue, q)
      /\ Len(q) >= 1
      /\ Includes(Appended(exploredPrefixes, exploredPrefixes'), Parent(q)) }

Selects(q) == Count(prefixQueue', q) < Count(prefixQueue, q)

C30_BlockedNeverEnqueued ==
  [][ \/ /\ \A q \in Children : ~StartsWithBlocked(blockedPrefixes', q)
         /\ \A q \in { prefixQueue[i] : i \in 1..Len(prefixQueue) } :
              StartsWithBlocked(blockedPrefixes, q) =>
                /\ Fetches(ledger', q) = Fetches(ledger, q)
                /\ (isRunning /\ Selects(q)) =>
                     \/ Includes(Appended(skippedPrefixes, skippedPrefixes'), q)
                     \/ /\ Has(cachedResults, q)
                        /\ Includes(Appended(exploredPrefixes,
                                             exploredPrefixes'), q)
      \/ CallReset \/ CallStart ]_vars

\* a queued descendant of a blocked prefix was selected and skipped
\* without a query, and children of a prefix with results were enqueued
C30_Witness ==
  \E q \in { skippedPrefixes[i] : i \in 1..Len(skippedPrefixes) } :
    /\ StartsWithBlocked(blockedPrefixes, q)
    /\ Fetches(ledger, q) = 0
    /\ \E p \in DOMAIN cachedResults :
         /\ cachedResults[p] # << >>
         /\ \E i \in 1..Len(prefixQueue) : Parent(prefixQueue[i]) = p

\* C31: in every reachable state the frontier queue holds no prefix twice
\* and no prefix that is in exploredPrefixes or skippedPrefixes, whether
\* the queue was filled by child generation, by the re-queuing after a 429
\* or by seeding.
C31_QueueFresh ==
  /\ NoDuplicates(prefixQueue)
  /\ \A i \in 1..Len(prefixQueue) :
       /\ ~Includes(exploredPrefixes, prefixQueue[i])
       /\ ~Includes(skippedPrefixes, prefixQueue[i])

\* C32: with heuristic scoring enabled, selectOptimalPrefix removes and
\* returns a queued prefix of maximal value (calculatePrefixValue) and,
\* among those of maximal value, of minimal length; it removes exactly that
\* one element from the queue and appends it to currentPrefixes.  This is
\* stated of every step in which a running service takes a prefix from
\* the queue and either issues its query (the prefix is then the last of
\* currentPrefixes) or skips it (the skip path has taken it out of
\* currentPrefixes again).
Value2(q) == calculatePrefixValue2([prefixPatterns |-> prefixPatterns], q)

Best(q) ==
  \A i \in 1..Len(prefixQueue) :
    \/ Value2(prefixQueue[i]) < Value2(q)
    \/ /\ Value2(prefixQueue[i]) = Value2(q)
       /\ Len(q) <= Len(prefixQueue[i])

\* the queue has lost one occurrence of c and nothing else
TakenFrom(queue, c) ==
  /\ Includes(prefixQueue, c)
  /\ Len(queue) = Len(prefixQueue) - 1
  /\ \A i \in 1..Len(prefixQueue) :
       Count(queue, prefixQueue[i]) =
         Count(prefixQueue, prefixQueue[i]) - (IF prefixQueue[i] = c THEN 1 ELSE 0)

SelectsBest(queue, current) ==
  /\ Len(current) = Len(currentPrefixes) + 1
  /\ SubSeq(current, 1, Len(currentPrefixes)) = currentPrefixes
  /\ Best(current[Len(current)])
  /\ TakenFrom(queue, current[Len(current)])

SelectedAndSkipped ==
  /\ tasks' = tasks
  /\ Len(skippedPrefixes') = Len(skippedPrefixes) + 1

C32_SelectsBest ==
  [][ (options.mlEnabled /\ isRunning /\ Handled = 0) =>
        /\ \A t \in tasks' :
             (NewlyDispatched(t) /\ skippedPrefixes' = skippedPrefixes)
             => SelectsBest(prefixQueue', currentPrefixes')
        /\ SelectedAndSkipped =>
             /\ Best(skippedPrefixes'[Len(skippedPrefixes')])
             /\ TakenFrom(prefixQueue', skippedPrefixes'[Len(skippedPrefixes')])
             /\ currentPrefixes' =
                  Without(currentPrefixes, skippedPrefixes'[Len(skippedPrefixes')])
    ]_vars

\* the query of a selected prefix is in flight, and the queue it was taken
\* from holds a prefix of lower value
C32_Witness ==
  /\ options.mlEnabled
  /\ \E t \in tasks :
       /\ t.pc = "fetch" /\ t.retryCount = 0
       /\ Len(currentPrefixes) > 0
       /\ currentPrefixes[Len(currentPrefixes)] = t.prefix
       /\ Best(t.prefix)
       /\ \E i \in 1..Len(prefixQueue) :
            Value2(prefixQueue[i]) < Value2(t.prefix)

\* C33: in every reachable state every value stored in prefixPatterns is
\* an integer in 0..5, and so is the score getPatternScore returns for
\* every prefix: the prefixes that are scored, queued, in flight or
\* skipped, the empty prefix, and the children generation can give a seed
\* of one letter.
\* the prefixes start() seeds the queue with
Seeds ==
  IF options.mlEnabled THEN options.initialPrefixes ELSE Letters

ScoreInRange(p) ==
  getPatternScore([prefixPatterns |-> prefixPatterns], p) \in 0..5

AllInRange(seq) == \A i \in 1..Len(seq) : ScoreInRange(seq[i])

C33_ScoreInRange ==
  [](/\ \A k \in DOMAIN prefixPatterns :
          prefixPatterns[k] \in 0..5 /\ ScoreInRange(k)
     /\ ScoreInRange(<< >>)
     /\ AllInRange(prefixQueue)
     /\ AllInRange(skippedPrefixes)
     /\ \A t \in tasks : ScoreInRange(t.prefix)
     /\ \A j \in 1..Len(Seeds) :
          Len(Seeds[j]) <= 1 => AllInRange(Extend(Seeds[j], commonNextLetters)))

\* prefixPatterns holds the score 0 of a prefix without results and a
\* score raised by a child with results, and a queued prefix that has no
\* score of its own inherits its parent's
C33_Witness ==
  /\ \E k \in DOMAIN prefixPatterns : prefixPatterns[k] = 0
  /\ \E k \in DOMAIN prefixPatterns :
       /\ Len(k) > 1 /\ prefixPatterns[k] > 0
       /\ Has(prefixPatterns, Parent(k))
       /\ Includes(exploredPrefixes, k)
  /\ \E i \in 1..Len(prefixQueue) :
       /\ Len(prefixQueue[i]) > 1
       /\ ~Has(prefixPatterns, prefixQueue[i])
       /\ Has(prefixPatterns, Parent(prefixQueue[i]))

\* C34: for a prefix of length at most 1 the scorer returns 3 when no
\* score has been observed for the prefix, and the observed score itself
\* when one is stored in prefixPatterns (by the result of its own query or
\* by the nudge a child with results gives its parent).
\* the prefixes the run knows, and the empty prefix
KnownPrefixes ==
  { prefixQueue[i] : i \in 1..Len(prefixQueue) }
    \cup { currentPrefixes[i] : i \in 1..Len(currentPrefixes) }
    \cup { exploredPrefixes[i] : i \in 1..Len(exploredPrefixes) }
    \cup { skippedPrefixes[i] : i \in 1..Len(skippedPrefixes) }
    \cup { t.prefix : t \in tasks }
    \cup DOMAIN prefixPatterns
    \cup { << >> }

C34_ShortPrefixScore ==
  \A p \in KnownPrefixes :
    Len(p) <= 1 =>
      getPatternScore(Cur, p) =
        IF Has(prefixPatterns, p) THEN prefixPatterns[p] ELSE 3

\* C35: when a prefix of length 1 returns no results, its curated children
\* (the exploration floor) are not only enqueued but queried: none of them
\* is skipped, without a query, because it inherits the score of its
\* empty parent.
FloorChild(q) ==
  /\ Len(q) = 2
  /\ Includes(commonLetters, q[2])
  /\ Has(cachedResults, Parent(q))
  /\ cachedResults[Parent(q)] = << >>

C35_FloorChildrenQueried ==
  \A i \in 1..Len(skippedPrefixes) :
    ~(/\ FloorChild(skippedPrefixes[i])
      /\ Fetches(ledger, skippedPrefixes[i]) = 0)

\* C36: in every reachable state stats.exploredPrefixes holds each prefix
\* at most once: handleResults runs at most once per prefix per run, also
\* after the re-queuing of a 429 and on cache hits.
C36_ExploredOnce == NoDuplicates(exploredPrefixes)

\* C37: in every reachable state exploredPrefixes and skippedPrefixes are
\* disjoint: no prefix is both explored and skipped within a run, under
\* any interleaving of concurrent tasks.
C37_ExploredSkippedDisjoint ==
  \A i \in 1..Len(exploredPrefixes) :
    ~Includes(skippedPrefixes, exploredPrefixes[i])

\* C38: stats.currentPrefixes lists exactly the prefixes of the tasks in
\* flight: between steps its length equals activeRequests and its elements
\* are the prefixes of the pending tasks, and it is empty when the engine
\* is quiescent (nothing in flight, no activation of processQueue alive)
\* after a completed or stopped run.
Quiescent == started /\ ~isRunning /\ tasks = {} /\ loops = {} /\ activeRequests = 0

C38_CurrentPrefixesInFlight ==
  /\ Len(currentPrefixes) = activeRequests
  /\ \A p \in { t.prefix : t \in tasks } \cup
              { currentPrefixes[i] : i \in 1..Len(currentPrefixes) } :
       Count(currentPrefixes, p) = Cardinality({ t \in tasks : t.prefix = p })
  /\ Quiescent => currentPrefixes = << >>

\* C39: in every reachable state successfulRequests + failedRequests is at
\* most totalRequests: every issued request is counted as at most one of
\* successful or failed, and none is counted before it was issued.
C39_OutcomesWithinTotal ==
  successfulRequests + failedRequests <= totalRequests

\* C40: child generation respects the depth cap.  A prefix that is new in
\* the queue is a seed, the prefix a task puts back after a 429, or a
\* child: its parent, of length below 3, was handled in the step and the
\* child is the parent plus one character.  So every prefix in the queue
\* has length at most max(3, longest seed), and the prefixes a run can
\* explore are finitely many.
RECURSIVE Longest(_)
Longest(seq) ==
  IF seq = << >> THEN 0 ELSE Max(Len(Head(seq)), Longest(Tail(seq)))

DepthCap == Max(3, Longest(Seeds))

ChildOfHandled(q) ==
  /\ Len(q) >= 1
  /\ Len(Parent(q)) < 3
  /\ Includes(Appended(exploredPrefixes, exploredPrefixes'), Parent(q))

C40_DepthCap ==
  [][ \A i \in 1..Len(prefixQueue') :
        LET q == prefixQueue'[i]
        IN /\ Len(q) <= DepthCap
           /\ ~Includes(prefixQueue, q) =>
                \/ Includes(Seeds, q)
                \/ \E t \in tasks : t.prefix = q /\ t.pc = "backoff"
                \/ ChildOfHandled(q) ]_vars

\* a prefix of length 3 was handled with names and left no child in the
\* queue, while a child of a shorter prefix is queued
C40_Witness ==
  /\ \E p \in DOMAIN cachedResults :
       /\ Len(p) >= 3
       /\ cachedResults[p] # << >>
       /\ Includes(exploredPrefixes, p)
       /\ \A i \in 1..Len(prefixQueue) :
            Len(prefixQueue[i]) >= 1 => Parent(prefixQueue[i]) # p
  /\ \E i \in 1..Len(prefixQueue) :
       /\ Len(prefixQueue[i]) = 3
       /\ ~Includes(Seeds, prefixQueue[i])
       /\ Includes(exploredPrefixes, Parent(prefixQueue[i]))

====
